---------------------------- MODULE Spec2Model ----------------------------
(***************************************************************************)
(* A model of extract.py, the Gallery 2 to static tree exporter.            *)
(*                                                                         *)
(* Strings are sequences of one-character strings.  Three characters that  *)
(* TLA+ cannot write directly are named: NUL (U+0000), NBSP (U+00A0, the   *)
(* no-break space) and EACUTE (U+00E9).  The output tree is a function     *)
(* from paths (relative to SCRIPTDIR/test) to entries; the source tree is  *)
(* a function from paths (relative to SCRIPTDIR/gall) to the state of the  *)
(* image file found there.                                                 *)
(***************************************************************************)
EXTENDS Integers, Sequences, FiniteSets, TLC

VARIABLES
    san,        \* the sanitizer harness: input, first and second result
    store,      \* record store: album id -> rows returned by SQL_GET_CHILDREN
    gall,       \* source tree: original path -> state of the image file
    opts,       \* OPTIONS (dry_run, force_thumbs, no_thumbs) and the album lists
    fs,         \* output tree: path -> entry
    pc,         \* "start", "walk", "done" (exit 0) or "aborted" (exit 1)
    frames,     \* the active get_children calls, outermost first
    fspath,     \* the source path stack (shared, mutated in place)
    uipath,     \* the output path stack (shared, mutated in place)
    missing_files,  \* list of the run
    all_files,      \* list of the run
    run,        \* which run over the same inputs this is
    obs         \* what the current run did: operations, steps in order, and
                \* the tree at its start

vars == <<san, store, gall, opts, fs, pc, frames, fspath, uipath,
          missing_files, all_files, run, obs>>

-----------------------------------------------------------------------------
(* Bounds *)

MaxParts == 3
MaxRuns == 2
MaxDepth == 3

-----------------------------------------------------------------------------
(* Characters and strings *)

NUL == "NUL"
NBSP == "NBSP"
EACUTE == "EACUTE"
None == <<"None">>

UpperCase == <<"A","B","C","D","E","F","G","H","I","J","K","L","M",
               "N","O","P","Q","R","S","T","U","V","W","X","Y","Z">>
LowerCase == <<"a","b","c","d","e","f","g","h","i","j","k","l","m",
               "n","o","p","q","r","s","t","u","v","w","x","y","z">>
Digits == <<"0","1","2","3","4","5","6","7","8","9">>

Range(s) == {s[i] : i \in DOMAIN s}

RECURSIVE Flatten(_)
Flatten(ss) == IF ss = <<>> THEN <<>> ELSE Head(ss) \o Flatten(Tail(ss))

IsPrefix(p, s) == Len(p) <= Len(s) /\ SubSeq(s, 1, Len(p)) = p

Drop(s, n) == SubSeq(s, n + 1, Len(s))

\* str.replace(old, new): non-overlapping occurrences, left to right
RECURSIVE Replace(_, _, _)
Replace(s, old, new) ==
    IF s = <<>> THEN <<>>
    ELSE IF IsPrefix(old, s) THEN new \o Replace(Drop(s, Len(old)), old, new)
    ELSE <<Head(s)>> \o Replace(Tail(s), old, new)

\* str.lower() on one character
LowerChar(c) ==
    IF \E i \in DOMAIN UpperCase : UpperCase[i] = c
    THEN LowerCase[CHOOSE i \in DOMAIN UpperCase : UpperCase[i] = c]
    ELSE c

Lower(s) == [i \in DOMAIN s |-> LowerChar(s[i])]

\* the position of the first c in s, 0 when there is none
FirstIndex(s, c) ==
    IF c \in Range(s) THEN CHOOSE i \in DOMAIN s : s[i] = c /\ \A j \in 1..(i-1) : s[j] # c
    ELSE 0

-----------------------------------------------------------------------------
(* decode: unidecode(unicode(text)).encode('iso-8859-15') *)

\* unidecode's table for the characters of the model; ASCII (NUL included)
\* maps to itself
Unidecode(c) ==
    CASE c = EACUTE -> <<"e">>
      [] c = NBSP   -> <<" ">>
      [] OTHER      -> <<c>>

decode(text) ==
    IF text = None THEN <<>>
    ELSE Flatten([i \in DOMAIN text |-> Unidecode(text[i])])

-----------------------------------------------------------------------------
(* RE_MARKUP.sub('', s) with RE_MARKUP = \[.*?\] *)

RECURSIVE StripMarkup(_)
StripMarkup(s) ==
    IF s = <<>> THEN <<>>
    ELSE IF Head(s) = "["
         THEN LET rest == Tail(s)
                  close == FirstIndex(rest, "]")
                  nl == FirstIndex(rest, "\n")
              IN  IF close > 0 /\ (nl = 0 \/ nl > close)
                  THEN StripMarkup(Drop(rest, close))
                  ELSE <<"[">> \o StripMarkup(rest)
         ELSE <<Head(s)>> \o StripMarkup(Tail(s))

-----------------------------------------------------------------------------
(* HTMLParser.unescape, as Python 2.7 has it: one pass that replaces every   *)
(* numeric and every known named reference and leaves the others alone.    *)
(* The result is a unicode string, so a reference can bring back in a      *)
(* character that the steps before it had removed.                         *)

WordChars == Range(UpperCase) \cup Range(LowerCase) \cup Range(Digits) \cup {"_"}
HexChars == Range(Digits) \cup {"a","b","c","d","e","f","A","B","C","D","E","F"}

DigitValue(c) ==
    IF \E i \in DOMAIN Digits : Digits[i] = c
    THEN (CHOOSE i \in DOMAIN Digits : Digits[i] = c) - 1
    ELSE (CHOOSE i \in 1..6 : LowerCase[i] = LowerChar(c)) + 9

RECURSIVE ParseInt(_, _, _)
ParseInt(s, base, acc) ==
    IF s = <<>> THEN acc ELSE ParseInt(Tail(s), base, acc * base + DigitValue(Head(s)))

\* unichr for the code points of the model; any other code point is one
\* character the model does not tell apart
Unichr(n) ==
    CASE n = 0   -> NUL
      [] n = 32  -> " "
      [] n = 38  -> "&"
      [] n = 95  -> "_"
      [] n = 160 -> NBSP
      [] n = 233 -> EACUTE
      [] OTHER   -> "OTHERCHAR"

\* htmlentitydefs.name2codepoint plus 'apos', for the names of the model
KnownEntity(name) ==
    name \in {<<"a","m","p">>, <<"l","t">>, <<"g","t">>, <<"q","u","o","t">>,
              <<"a","p","o","s">>, <<"n","b","s","p">>,
              <<"e","a","c","u","t","e">>}

EntityChar(name) ==
    CASE name = <<"a","m","p">> -> "&"
      [] name = <<"l","t">> -> "<"
      [] name = <<"g","t">> -> ">"
      [] name = <<"q","u","o","t">> -> "\""
      [] name = <<"a","p","o","s">> -> "'"
      [] name = <<"n","b","s","p">> -> NBSP
      [] name = <<"e","a","c","u","t","e">> -> EACUTE

\* whether body matches  #?[xX]?(?:[0-9a-fA-F]+|\w{1,8})
EntityBody(body) ==
    LET r == IF body # <<>> /\ Head(body) = "#" THEN Tail(body) ELSE body
    IN  /\ r # <<>>
        /\ Range(r) \subseteq WordChars
        /\ \/ Len(r) <= 8
           \/ Range(r) \subseteq HexChars
           \/ /\ r[1] \in {"x", "X"}
              /\ Len(r) >= 2
              /\ (Len(r) <= 9 \/ Range(Tail(r)) \subseteq HexChars)

\* replaceEntities: the text that replaces  & body ;
replaceEntities(body) ==
    IF Head(body) = "#"
    THEN LET s == Tail(body)
         IN  IF s[1] \in {"x", "X"}
             THEN IF Len(s) >= 2 /\ Range(Tail(s)) \subseteq HexChars
                  THEN <<Unichr(ParseInt(Tail(s), 16, 0))>>
                  ELSE <<"&", "#">> \o s \o <<";">>
             ELSE IF Range(s) \subseteq Range(Digits)
                  THEN <<Unichr(ParseInt(s, 10, 0))>>
                  ELSE <<"&", "#">> \o s \o <<";">>
    ELSE IF KnownEntity(body) THEN <<EntityChar(body)>>
         ELSE <<"&">> \o body \o <<";">>

RECURSIVE unescape(_)
unescape(s) ==
    IF s = <<>> THEN <<>>
    ELSE IF Head(s) = "&"
         THEN LET rest == Tail(s)
                  semi == FirstIndex(rest, ";")
              IN  IF semi > 1 /\ EntityBody(SubSeq(rest, 1, semi - 1))
                  THEN replaceEntities(SubSeq(rest, 1, semi - 1))
                           \o unescape(Drop(rest, semi))
                  ELSE <<"&">> \o unescape(rest)
         ELSE <<Head(s)>> \o unescape(Tail(s))

\* the loop of cleanup_uipathcomponent: decode entities until nothing changes
RECURSIVE UnescapeLoop(_)
UnescapeLoop(s) ==
    LET t == unescape(s) IN IF t = s THEN s ELSE UnescapeLoop(t)

-----------------------------------------------------------------------------
(* RE_ILLIGAL and cleanup_uipathcomponent *)

\* \s without re.UNICODE: the ASCII whitespace only
AsciiSpace == {" ", "\t", "\n", "\r", "\f", "VT"}

RE_ILLIGAL ==
    {"[", "]", "\\", "/", "?", "%", ":", "|", "\"", "'", ">", "<", "#", "&"}
        \cup AsciiSpace

SubIllegal(s) == [i \in DOMAIN s |-> IF s[i] \in RE_ILLIGAL THEN "_" ELSE s[i]]

StripNul(s) == SelectSeq(s, LAMBDA c : c # NUL)

\* line 474: two single passes
CollapseDashes(s) == Replace(Replace(s, <<"_","_">>, <<"_">>), <<"_","-","_">>, <<"-">>)

cleanup_uipathcomponent(uipathcomponent) ==
    LET a == decode(StripNul(uipathcomponent))
        b == StripMarkup(a)
        c == UnescapeLoop(b)
        d == SubIllegal(c)
        e == CollapseDashes(d)
    IN  Lower(decode(e))

-----------------------------------------------------------------------------
(* Paths.  An output path is written relative to SCRIPTDIR/test and a      *)
(* source path relative to SCRIPTDIR/gall; SCRIPTDIR itself is taken to be *)
(* lower-case, so that .lower() on a full path changes only the relative  *)
(* part.  A path that starts with "/" is absolute.                         *)

JPG == <<".","j","p","g">>
ALBUM_JPG == <<"a","l","b","u","m">> \o JPG
INDEX_HTML == <<"i","n","d","e","x",".","h","t","m","l">>
STYLE_CSS == <<"s","t","y","l","e",".","c","s","s">>
SEP3 == <<"_","_","_">>

\* file_cfg['thumb_prefix'], with the default of lines 26-27
THUMB_PREFIX == <<"t","_","_">>

\* the id main passes to get_children
ROOT_ID == 7

\* '/'.join(stack)
RECURSIVE JoinSlash(_)
JoinSlash(stack) ==
    IF stack = <<>> THEN <<>>
    ELSE IF Len(stack) = 1 THEN stack[1]
    ELSE stack[1] \o <<"/">> \o JoinSlash(Tail(stack))

\* ('/'.join(stack))[1:]
JoinRel(stack) == Drop(JoinSlash(stack), 1)

\* what the file system makes of a path: repeated and trailing separators
\* do not count
RECURSIVE Norm(_)
Norm(p) ==
    IF Len(p) <= 1 THEN p
    ELSE IF p[1] = "/" /\ p[2] = "/" THEN Norm(Tail(p))
    ELSE IF Len(p) = 2 /\ p[2] = "/" THEN <<p[1]>>
    ELSE <<p[1]>> \o Norm(Tail(p))

\* os.path.join(base, rel, name) for base = SCRIPTDIR/test or SCRIPTDIR/gall
OsJoin(rel, name) ==
    Norm(IF name # <<>> /\ Head(name) = "/" THEN name
         ELSE IF rel = <<>> \/ rel[Len(rel)] = "/" THEN rel \o name
         ELSE rel \o <<"/">> \o name)

LastSlash(p) ==
    IF "/" \in Range(p) THEN CHOOSE i \in DOMAIN p : p[i] = "/" /\ \A j \in (i+1)..Len(p) : p[j] # "/"
    ELSE 0

\* the directory a path lies in; <<>> is the output root, <<"/">> the
\* root of the file system
ParentPath(p) ==
    LET i == LastSlash(p)
    IN  IF i = 0 THEN <<>> ELSE IF i = 1 THEN <<"/">> ELSE SubSeq(p, 1, i - 1)

-----------------------------------------------------------------------------
(* The output tree.  An entry is [kind, data]: a directory, a regular file *)
(* with its content, or a symbolic link with its target, <<"gall", path>>  *)
(* for an original and <<"test", path>> for a path of the output tree.     *)

MaxLinkHops == 4

DirEntry == [kind |-> "dir", data |-> <<>>]
FileEntry(content) == [kind |-> "file", data |-> content]
LinkEntry(target) == [kind |-> "link", data |-> target]

Put(f, p, e) == [q \in DOMAIN f \cup {p} |-> IF q = p THEN e ELSE f[q]]
Remove(f, p) == [q \in DOMAIN f \ {p} |-> f[q]]

\* os.path.lexists
Has(f, p) == p \in DOMAIN f

\* what a path leads to once symbolic links are followed
RECURSIVE Resolve(_, _, _, _)
Resolve(f, g, p, hops) ==
    IF p = <<"/">> THEN "dir"
    ELSE IF ~Has(f, p) THEN "none"
    ELSE IF f[p].kind # "link" THEN f[p].kind
    ELSE IF f[p].data[1] = "gall"
         THEN IF f[p].data[2] \in DOMAIN g THEN "file" ELSE "none"
    ELSE IF hops = 0 THEN "none"
    ELSE Resolve(f, g, f[p].data[2], hops - 1)

\* os.path.exists, os.path.isfile, os.path.isdir, os.path.islink
Exists(f, g, p) == Resolve(f, g, p, MaxLinkHops) # "none"
IsFile(f, g, p) == Resolve(f, g, p, MaxLinkHops) = "file"
IsDir(f, g, p) == Resolve(f, g, p, MaxLinkHops) = "dir"
IsLink(f, p) == Has(f, p) /\ f[p].kind = "link"

\* open(p, 'w') succeeds: the directory is there and p is free or a regular
\* file (a symbolic link or a directory at p is taken to make it fail)
CanWrite(f, g, p) == IsDir(f, g, ParentPath(p)) /\ (Has(f, p) => f[p].kind = "file")

\* os.symlink and os.mkdir succeed: the directory is there and p is free
CanCreate(f, g, p) == IsDir(f, g, ParentPath(p)) /\ ~Has(f, p)

\* os.makedirs(p): [ok, fs]
RECURSIVE MakeDirs(_, _, _)
MakeDirs(f, g, p) ==
    LET parent == ParentPath(p)
        up == IF p # <<>> /\ ~Exists(f, g, parent)
              THEN MakeDirs(f, g, parent)
              ELSE [ok |-> TRUE, fs |-> f]
    IN  IF up.ok /\ CanCreate(up.fs, g, p) /\ p # <<>>
        THEN [ok |-> TRUE, fs |-> Put(up.fs, p, DirEntry)]
        ELSE IF up.ok /\ p = <<>> /\ ~Has(up.fs, p)
        THEN [ok |-> TRUE, fs |-> Put(up.fs, p, DirEntry)]
        ELSE [ok |-> FALSE, fs |-> up.fs]

\* an operation of the run on the output tree, for the record in obs
Op(op, p, f) == [op |-> op, path |-> p, existed |-> Has(f, p)]

Mutating == {"write", "mkdir", "symlink", "remove"}

-----------------------------------------------------------------------------
(* get_link_target, get_thumb_target *)

get_link_target(uip, uipathcomponent, pathcomponent, full_path) ==
    LET new_pathcomponent ==
            IF pathcomponent # <<>> /\ Lower(uipathcomponent) # Lower(pathcomponent)
            THEN SEP3 \o pathcomponent
            ELSE <<>>
        file_name == Replace(Lower(uipathcomponent \o new_pathcomponent \o JPG),
                             JPG \o JPG, JPG)
    IN  IF full_path THEN Lower(OsJoin(JoinRel(uip), file_name)) ELSE file_name

get_thumb_target(uip, uipathcomponent, pathcomponent, full_path) ==
    LET suffix == IF pathcomponent # <<>> THEN SEP3 \o pathcomponent ELSE <<>>
        file_name == Replace(Lower(THUMB_PREFIX \o uipathcomponent \o suffix \o JPG),
                             JPG \o JPG, JPG)
    IN  IF full_path THEN Lower(OsJoin(JoinRel(uip), file_name)) ELSE file_name

\* lines 404-408
AlbumTarget(uip) ==
    Replace(Lower(OsJoin(JoinRel(uip), THUMB_PREFIX \o ALBUM_JPG)), JPG \o JPG, JPG)

\* lines 390-393
OrigFile(fsp, pathcomponent) == OsJoin(JoinRel(fsp), pathcomponent)

-----------------------------------------------------------------------------
(* generate_content *)

\* lines 413-415: whether a thumbnail is generated
NeedThumb(f, g, thumb_target, o) ==
    (~Exists(f, g, thumb_target) /\ ~o.no_thumbs) \/ o.force_thumbs

\* lines 421-422 without the test of what is at the cover's path
NeedCover_always(f, g, firstimage, album_target) == firstimage

\* lines 421-422: whether the thumbnail also becomes the album's cover
NeedCover(f, g, firstimage, album_target) ==
    firstimage /\ (IsLink(f, album_target) \/ ~Exists(f, g, album_target))

\* line 438 without its test: the link is made over again
NeedLink_always(f, g, link_target) == TRUE

\* line 438: whether the link to the original is created
NeedLink(f, g, link_target) == ~Exists(f, g, link_target)

\* line 434 without its return: a failed thumbnail goes on to the link
ThumbFailureReturns_not == FALSE

\* line 434: the handler of a failed thumbnail returns at once
ThumbFailureReturns == TRUE

\* lines 416-426, the body of the try.  Image.open fails on an image that
\* cannot be decoded; thumb.save fails on an image that cannot be encoded,
\* after it has opened (and so created or emptied) the thumbnail file; any
\* save fails when the file cannot be opened for writing.
ThumbStage(f, g, orig, thumb_target, album_target, firstimage) ==
    LET gen == {Op("thumbgen", thumb_target, f)}
    IN  IF g[orig] = "badopen"
        THEN [fs |-> f, failed |-> TRUE, ops |-> gen]
        ELSE IF ~CanWrite(f, g, thumb_target)
        THEN [fs |-> f, failed |-> TRUE, ops |-> gen]
        ELSE IF g[orig] = "badsave"
        THEN [fs |-> Put(f, thumb_target, FileEntry(<<"partial">>)),
              failed |-> TRUE,
              ops |-> gen \cup {Op("write", thumb_target, f)}]
        ELSE LET f1 == Put(f, thumb_target, FileEntry(<<"thumb", orig>>))
                 ops1 == gen \cup {Op("write", thumb_target, f)}
             IN  IF NeedCover(f1, g, firstimage, album_target)
                 THEN LET f2 == IF IsLink(f1, album_target)
                                THEN Remove(f1, album_target) ELSE f1
                          ops2 == IF IsLink(f1, album_target)
                                  THEN ops1 \cup {Op("remove", album_target, f1)}
                                  ELSE ops1
                      IN  [fs |-> Put(f2, album_target, FileEntry(<<"thumb", orig>>)),
                           failed |-> FALSE,
                           ops |-> ops2 \cup {Op("write", album_target, f2)}]
                 ELSE [fs |-> f1, failed |-> FALSE, ops |-> ops1]

\* lines 438-451: the link to the original
LinkStage(f, g, orig, link_target, all, outcome, ops) ==
    IF NeedLink(f, g, link_target)
    THEN IF CanCreate(f, g, link_target)
         THEN [fs |-> Put(f, link_target, LinkEntry(<<"gall", orig>>)),
               all |-> Append(all, orig), abort |-> FALSE, outcome |-> outcome,
               ops |-> ops \cup {Op("symlink_attempt", link_target, f),
                                 Op("symlink", link_target, f)}]
         ELSE [fs |-> f, all |-> all, abort |-> TRUE, outcome |-> "linkfail",
               ops |-> ops \cup {Op("symlink_attempt", link_target, f)}]
    ELSE [fs |-> f, all |-> all, abort |-> FALSE, outcome |-> outcome, ops |-> ops]

\* lines 410-411 without the append: the missing original is not counted
MissingSource_uncounted(f, orig, miss, all) ==
    [fs |-> f, missing |-> miss, all |-> all, ret |-> TRUE,
     abort |-> FALSE, outcome |-> "missing", ops |-> {}]

\* lines 410-411: the original is not there
MissingSource(f, orig, miss, all) ==
    [fs |-> f, missing |-> Append(miss, orig), all |-> all, ret |-> TRUE,
     abort |-> FALSE, outcome |-> "missing", ops |-> {}]

\* the whole of generate_content: the tree, the two lists, the value
\* returned, whether sys.exit(1) was reached, and what was done
generate_content(f, g, o, fsp, uip, uipathcomponent, pathcomponent, firstimage, miss, all) ==
    IF o.dry_run
    THEN [fs |-> f, missing |-> miss, all |-> all, ret |-> TRUE,
          abort |-> FALSE, outcome |-> "dry", ops |-> {}]
    ELSE
    LET orig_file == OrigFile(fsp, pathcomponent)
        link_target == get_link_target(uip, uipathcomponent, pathcomponent, TRUE)
        thumb_target == get_thumb_target(uip, uipathcomponent, pathcomponent, TRUE)
        album_target == AlbumTarget(uip)
    IN  IF orig_file \notin DOMAIN g
        THEN MissingSource(f, orig_file, miss, all)
        ELSE
        LET gen == NeedThumb(f, g, thumb_target, o)
            t == IF gen
                 THEN ThumbStage(f, g, orig_file, thumb_target, album_target, firstimage)
                 ELSE [fs |-> f, failed |-> FALSE, ops |-> {}]
            miss1 == IF t.failed THEN Append(miss, orig_file) ELSE miss
        IN  IF t.failed /\ ThumbFailureReturns
            THEN [fs |-> t.fs, missing |-> miss1, all |-> all, ret |-> FALSE,
                  abort |-> FALSE, outcome |-> "thumbfail", ops |-> t.ops]
            ELSE LET l == LinkStage(t.fs, g, orig_file, link_target, all,
                                    IF t.failed THEN "thumbfail" ELSE "ok", t.ops)
                 IN  [fs |-> l.fs, missing |-> miss1, all |-> l.all, ret |-> TRUE,
                      abort |-> l.abort, outcome |-> l.outcome, ops |-> l.ops]

-----------------------------------------------------------------------------
(* generate_html *)

ALBUM_TYPE == "GalleryAlbumItem"
PHOTO_TYPE == "GalleryPhotoItem"

\* lines 275-302: the entry of one summary
HtmlEntry(grandchild) ==
    LET pathcomponent == Lower(grandchild[1])
        title == cleanup_uipathcomponent(grandchild[2])
    IN  IF grandchild[3] = ALBUM_TYPE
        THEN [href |-> pathcomponent,
              img |-> pathcomponent \o <<"/">> \o THUMB_PREFIX \o ALBUM_JPG,
              title |-> title]
        ELSE [href |-> get_link_target(<<>>, title, pathcomponent, FALSE),
              img |-> get_thumb_target(<<>>, title, pathcomponent, FALSE),
              title |-> title]

HtmlPage(html_grandchildren, pathcomponent) ==
    <<"html", pathcomponent # <<>>,
      [i \in DOMAIN html_grandchildren |-> HtmlEntry(html_grandchildren[i])]>>

\* [ok, fs, ops]; not ok when open(html_filename, 'w') raises
generate_html(f, g, html_filename, html_grandchildren, pathcomponent) ==
    IF IsFile(f, g, html_filename)
    THEN [ok |-> TRUE, fs |-> f, ops |-> {}]
    ELSE IF CanWrite(f, g, html_filename)
    THEN [ok |-> TRUE,
          fs |-> Put(f, html_filename,
                     FileEntry(HtmlPage(html_grandchildren, pathcomponent))),
          ops |-> {Op("write", html_filename, f)}]
    ELSE [ok |-> FALSE, fs |-> f, ops |-> {}]

-----------------------------------------------------------------------------
(* get_children and generate_album, one call per frame *)

Rows(id) == IF id \in DOMAIN store THEN store[id] ELSE <<>>

Top == frames[Len(frames)]
TopRows == Rows(Top.itemid)
TopRow == TopRows[Top.i]
AtRow == pc = "walk" /\ frames # <<>> /\ Top.i <= Len(TopRows)
\* line 547 reached from anywhere in the loop: a call may return before
\* its rows are used up
AtEnd_early == pc = "walk" /\ frames # <<>>

\* the for loop of line 486 has used up the rows
AtEnd == pc = "walk" /\ frames # <<>> /\ Top.i > Len(TopRows)

IsAlbumRow(row) == row.type = ALBUM_TYPE /\ row.children = 1
IsPhotoRow(row) == row.type = PHOTO_TYPE

\* lines 491-492
Eligible(row) == IsAlbumRow(row) \/ IsPhotoRow(row)

\* line 496: row[3] or row[5]
RawTitle(row) == IF row.title = None \/ row.title = <<>> THEN row.pc ELSE row.title
RowTitle(row) == cleanup_uipathcomponent(RawTitle(row))
RowPath(row) == decode(row.pc)

\* lines 500-505 without the test of the title: only the source path
\* component is looked up in the ignore-list
Filtered_pathonly(row, o) ==
    \/ RowPath(row) \in o.ignore_albums
    \/ (o.only_albums # {} /\ RowPath(row) \notin o.only_albums)

\* lines 500-505
Filtered(row, o) ==
    \/ RowPath(row) \in o.ignore_albums
    \/ RowTitle(row) \in o.ignore_albums
    \/ (o.only_albums # {} /\ RowPath(row) \notin o.only_albums)

\* line 363
ShouldMakeDir(f, g, mkpath, o) == ~Exists(f, g, mkpath) /\ ~o.dry_run

\* line 369 without its test of the list: an index page for every album
ShouldWriteIndex_always(grandchildren, o) == ~o.dry_run

\* line 369
ShouldWriteIndex(grandchildren, o) == grandchildren # <<>> /\ ~o.dry_run

\* lines 532-533
NeedCoverLink(f, g, link_source, link_target) ==
    ~Exists(f, g, link_source) /\ Exists(f, g, link_target)

\* lines 519-520 without the pops
Pop_none(stack) == stack

\* list.pop(), lines 519-520
Pop(stack) == SubSeq(stack, 1, Len(stack) - 1)

NewFrame(itemid, pathcomponent) ==
    [itemid |-> itemid, i |-> 1, child_objects |-> <<>>, first_image |-> TRUE,
     pathcomponent |-> pathcomponent]

SetTop(fr) == [frames EXCEPT ![Len(frames)] = fr]

Did(ops) == [obs EXCEPT !.ops = @ \cup ops]

\* the ids of the albums whose calls are active, outermost first: the
\* identity of the call on top
IdPath == [k \in DOMAIN frames |-> frames[k].itemid]

\* the record of a step of the walk: which call it belongs to, the row it
\* is about (for "index", the album that returns), the two path stacks,
\* and two flags and an outcome whose meaning depends on the kind of step
Event(kind, id, flag, ret, outcome) ==
    [ev |-> kind, at |-> IdPath, i |-> Top.i, id |-> id, fsp |-> fspath,
     uip |-> uipath, flag |-> flag, ret |-> ret, outcome |-> outcome]

Logged(o, e) == [o EXCEPT !.log = Append(@, e)]

\* the calls are nested as deep as the interpreter lets them be (its
\* recursion limit, 1000 frames unless changed; MaxDepth stands for it)
StackFull == Len(frames) > MaxDepth

\* main, lines 551-555: the stylesheet, then the call of get_children
MainStart ==
    /\ pc = "start"
    /\ IF CanWrite(fs, gall, STYLE_CSS)
       THEN /\ fs' = Put(fs, STYLE_CSS, FileEntry(<<"css">>))
            /\ obs' = Did({Op("write", STYLE_CSS, fs)})
            /\ pc' = "walk"
            /\ frames' = <<NewFrame(ROOT_ID, <<>>)>>
            /\ fspath' = << <<>> >>
            /\ uipath' = << <<>> >>
       ELSE /\ pc' = "aborted"
            /\ UNCHANGED <<fs, obs, frames, fspath, uipath>>
    /\ UNCHANGED <<san, store, gall, opts, missing_files, all_files, run>>

\* lines 491-493: a row that is neither an album with children nor a photo
SkipRow ==
    /\ AtRow
    /\ ~Eligible(TopRow)
    /\ frames' = SetTop([Top EXCEPT !.i = @ + 1])
    /\ obs' = Logged(obs, Event("skip", TopRow.id, FALSE, FALSE, "skip"))
    /\ UNCHANGED <<san, store, gall, opts, fs, pc, fspath, uipath,
                   missing_files, all_files, run>>

\* lines 499-505: an album the ignore-list or the allow-list leaves out
FilterAlbum ==
    /\ AtRow
    /\ IsAlbumRow(TopRow)
    /\ Filtered(TopRow, opts)
    /\ frames' = SetTop([Top EXCEPT !.i = @ + 1])
    /\ obs' = Logged(obs, Event("filter", TopRow.id, FALSE, FALSE, "filter"))
    /\ UNCHANGED <<san, store, gall, opts, fs, pc, fspath, uipath,
                   missing_files, all_files, run>>

\* lines 507-516 and 362-367: the summary, the two pushes, the directory,
\* and the call of get_children for the album
EnterAlbum ==
    /\ AtRow
    /\ IsAlbumRow(TopRow)
    /\ ~Filtered(TopRow, opts)
    /\ LET title == RowTitle(TopRow)
           pathcomponent == RowPath(TopRow)
           uip == Append(uipath, title)
           mkpath == OsJoin(JoinRel(uip), <<>>)
           made == IF ShouldMakeDir(fs, gall, mkpath, opts)
                   THEN MakeDirs(fs, gall, mkpath)
                   ELSE [ok |-> TRUE, fs |-> fs]
       IN  /\ fspath' = Append(fspath, pathcomponent)
           /\ uipath' = uip
           /\ fs' = made.fs
           /\ obs' = Logged(Did({Op("mkdir", q, fs) : q \in DOMAIN made.fs \ DOMAIN fs}),
                            Event("album", TopRow.id, FALSE, made.ok /\ ~StackFull,
                                  "album"))
           /\ IF made.ok /\ ~StackFull
              THEN /\ frames' = Append(
                        SetTop([Top EXCEPT !.child_objects =
                                    Append(@, <<title, title, TopRow.type>>)]),
                        NewFrame(TopRow.id, pathcomponent))
                   /\ pc' = pc
              ELSE /\ frames' = SetTop([Top EXCEPT !.child_objects =
                                    Append(@, <<title, title, TopRow.type>>)])
                   /\ pc' = "aborted"
    /\ UNCHANGED <<san, store, gall, opts, missing_files, all_files, run>>

\* line 545 outside the if of line 539: any photo clears first_image
ClearsFirstImage_always(ret) == TRUE

\* lines 539-545: first_image is cleared when generate_content returned true
ClearsFirstImage(ret) == ret

\* lines 538-545: a photo
Photo ==
    /\ AtRow
    /\ IsPhotoRow(TopRow)
    /\ LET title == RowTitle(TopRow)
           pathcomponent == RowPath(TopRow)
           r == generate_content(fs, gall, opts, fspath, uipath, title,
                                 pathcomponent, Top.first_image,
                                 missing_files, all_files)
       IN  /\ fs' = r.fs
           /\ missing_files' = r.missing
           /\ all_files' = r.all
           /\ obs' = Logged(Did(r.ops),
                            Event("photo", TopRow.id, Top.first_image, r.ret,
                                  r.outcome))
           /\ IF r.abort
              THEN /\ pc' = "aborted"
                   /\ frames' = frames
              ELSE /\ pc' = pc
                   /\ frames' = SetTop(
                        LET next == [Top EXCEPT !.i = @ + 1,
                                                !.first_image =
                                                    IF ClearsFirstImage(r.ret)
                                                    THEN FALSE ELSE @]
                        IN  IF r.ret
                            THEN [next EXCEPT !.child_objects =
                                     Append(@, <<pathcomponent, title, TopRow.type>>)]
                            ELSE next)
    /\ UNCHANGED <<san, store, gall, opts, fspath, uipath, run>>

\* lines 369-377 and 517-536: the album's index page, the two pops and the
\* cover link of the level above
ReturnAlbum ==
    /\ AtEnd
    /\ Len(frames) > 1
    /\ LET grandchildren == Top.child_objects
           fname == OsJoin(JoinRel(uipath), INDEX_HTML)
           h == IF ShouldWriteIndex(grandchildren, opts)
                THEN generate_html(fs, gall, fname, grandchildren, Top.pathcomponent)
                ELSE [ok |-> TRUE, fs |-> fs, ops |-> {}]
           tmp_uipath == uipath
           link_target == OsJoin(JoinRel(tmp_uipath), THUMB_PREFIX \o ALBUM_JPG)
           link_source == OsJoin(JoinRel(SubSeq(tmp_uipath, 1, Len(tmp_uipath) - 1)),
                                 THUMB_PREFIX \o ALBUM_JPG)
           attempt == NeedCoverLink(h.fs, gall, link_source, link_target)
           linked == attempt /\ CanCreate(h.fs, gall, link_source)
           caller == frames[Len(frames) - 1]
       IN  IF h.ok
           THEN /\ fs' = IF linked
                         THEN Put(h.fs, link_source, LinkEntry(<<"test", link_target>>))
                         ELSE h.fs
                /\ obs' = Logged(
                              Did(h.ops
                                  \cup (IF attempt
                                        THEN {Op("symlink_attempt", link_source, h.fs)}
                                        ELSE {})
                                  \cup (IF linked
                                        THEN {Op("symlink", link_source, h.fs)}
                                        ELSE {})),
                              Event("index", Top.itemid,
                                    ShouldWriteIndex(grandchildren, opts),
                                    h.ops # {}, "index"))
                /\ fspath' = Pop(fspath)
                /\ uipath' = Pop(uipath)
                /\ frames' = Append(SubSeq(frames, 1, Len(frames) - 2),
                                    [caller EXCEPT !.i = @ + 1])
                /\ pc' = pc
           ELSE /\ pc' = "aborted"
                /\ UNCHANGED <<fs, obs, fspath, uipath, frames>>
    /\ UNCHANGED <<san, store, gall, opts, missing_files, all_files, run>>

\* main, lines 555-560: the root's index page and the two counts
ReturnRoot ==
    /\ AtEnd
    /\ Len(frames) = 1
    /\ LET h == generate_html(fs, gall, OsJoin(<<>>, INDEX_HTML),
                              Top.child_objects, <<>>)
       IN  /\ fs' = h.fs
           /\ obs' = Logged(Did(h.ops),
                            Event("index", Top.itemid, TRUE, h.ops # {}, "index"))
           /\ pc' = IF h.ok THEN "done" ELSE "aborted"
    /\ UNCHANGED <<san, store, gall, opts, frames, fspath, uipath,
                   missing_files, all_files, run>>

\* the script is started again, on the same store, source tree and options
\* and on the output tree the run before left
Rerun ==
    /\ pc \in {"done", "aborted"}
    /\ run < MaxRuns
    /\ run' = run + 1
    /\ pc' = "start"
    /\ frames' = <<>>
    /\ fspath' = <<>>
    /\ uipath' = <<>>
    /\ missing_files' = <<>>
    /\ all_files' = <<>>
    /\ obs' = [obs EXCEPT !.ops = {}, !.log = <<>>, !.fs0 = fs, !.prev = pc]
    /\ UNCHANGED <<san, store, gall, opts, fs>>

-----------------------------------------------------------------------------
(* The inputs: record stores, source trees, options, and the output tree   *)
(* the first run finds.                                                    *)

Row(id, type, children, title, pathcomponent) ==
    [id |-> id, type |-> type, children |-> children, title |-> title,
     pc |-> pathcomponent]

PhotoA == Row(11, PHOTO_TYPE, 0, <<"A"," ","b">>, <<"a">> \o JPG)
PhotoB == Row(12, PHOTO_TYPE, 0, None, <<"b">> \o JPG)
PhotoC == Row(13, PHOTO_TYPE, 0, <<"c">>, <<"C",".","J","P","G">>)
PhotoD == Row(14, PHOTO_TYPE, 0, <<"c">>, <<"c">> \o JPG)
AlbumX == Row(1, ALBUM_TYPE, 1, <<"X"," ","y">>, <<"x">>)
AlbumY == Row(2, ALBUM_TYPE, 1, <<>>, <<"y">>)
AlbumW == Row(5, ALBUM_TYPE, 1, <<"x","_","y">>, <<"w">>)
AlbumLeaf == Row(3, ALBUM_TYPE, 0, <<"z">>, <<"z">>)
Movie == Row(4, "GalleryMovieItem", 0, <<"m">>, <<"m">>)

ShapeFlat == (ROOT_ID :> <<PhotoA, Movie, PhotoB, PhotoC>>)
ShapeNested == (ROOT_ID :> <<AlbumX, PhotoC>>) @@ (1 :> <<PhotoA, PhotoB>>)
ShapeEmpty == (ROOT_ID :> <<AlbumX, AlbumLeaf, PhotoA>>) @@ (1 :> <<Movie>>)
ShapeDeep == (ROOT_ID :> <<AlbumX, PhotoB>>) @@ (1 :> <<AlbumY, PhotoC>>)
                 @@ (2 :> <<PhotoA>>)
ShapeTwo == (ROOT_ID :> <<AlbumX, AlbumY>>) @@ (1 :> <<PhotoA>>) @@ (2 :> <<PhotoB>>)

\* two albums of one level whose titles sanitize to the same name
ShapeSame == (ROOT_ID :> <<AlbumX, AlbumW>>) @@ (1 :> <<PhotoA>>) @@ (5 :> <<PhotoB>>)

\* an album that is its own child
ShapeCycle == (ROOT_ID :> <<AlbumX>>) @@ (1 :> <<AlbumX>>)

\* two photos of one album with one title, whose file names differ in case
ShapeClash == (ROOT_ID :> <<PhotoC, PhotoD>>)

Options(dry, force, nothumbs, ignore, only) ==
    [dry_run |-> dry, force_thumbs |-> force, no_thumbs |-> nothumbs,
     ignore_albums |-> ignore, only_albums |-> only]

PlainOptions ==
    {Options(FALSE, FALSE, FALSE, {}, {}), Options(TRUE, FALSE, FALSE, {}, {}),
     Options(FALSE, TRUE, FALSE, {}, {}), Options(FALSE, FALSE, TRUE, {}, {}),
     Options(FALSE, TRUE, TRUE, {}, {})}

ListOptions ==
    {Options(FALSE, FALSE, FALSE, {<<"x">>}, {}),
     Options(FALSE, FALSE, FALSE, {<<"x","_","y">>}, {}),
     Options(FALSE, FALSE, FALSE, {}, {<<"y">>})}

\* lists that name the album nested in ShapeDeep, and its parent
DeepListOptions ==
    {Options(FALSE, FALSE, FALSE, {<<"y">>}, {}),
     Options(FALSE, FALSE, FALSE, {}, {<<"x">>})}

Inputs ==
    {[store |-> st, opts |-> o] :
        st \in {ShapeFlat, ShapeNested, ShapeEmpty, ShapeDeep, ShapeClash,
                ShapeCycle, ShapeSame},
        o \in PlainOptions}
    \cup {[store |-> ShapeTwo, opts |-> o] : o \in ListOptions}
    \cup {[store |-> ShapeDeep, opts |-> o] : o \in DeepListOptions}

\* the originals the photo rows of a store name
RECURSIVE OrigFilesOf(_, _, _, _)
OrigFilesOf(st, id, fsp, depth) ==
    LET rows == IF id \in DOMAIN st THEN st[id] ELSE <<>>
    IN  UNION {
          IF IsPhotoRow(rows[i]) THEN {OrigFile(fsp, decode(rows[i].pc))}
          ELSE IF IsAlbumRow(rows[i]) /\ depth > 0
          THEN OrigFilesOf(st, rows[i].id, Append(fsp, decode(rows[i].pc)), depth - 1)
          ELSE {} : i \in DOMAIN rows}

\* an original is absent, or an image that is fine, that cannot be decoded,
\* or that cannot be encoded as JPEG
ImageStates == {"ok", "badopen", "badsave"}

SourceTrees(st) ==
    UNION {[S -> ImageStates] : S \in SUBSET OrigFilesOf(st, ROOT_ID, << <<>> >>, MaxDepth)}

\* the output root is missing; is empty; or holds, where PhotoA's link goes
\* when PhotoA is a child of the root, a link left by an earlier export
\* whose original is gone
NoTree == [p \in {} |-> DirEntry]
FreshTree == Put(NoTree, <<>>, DirEntry)
StaleLinkTree ==
    Put(FreshTree,
        get_link_target(<< <<>> >>, RowTitle(PhotoA), RowPath(PhotoA), TRUE),
        LinkEntry(<<"gall", <<"g","o","n","e">> >>))

PriorTrees == {NoTree, FreshTree, StaleLinkTree}

SanIdle == [pc |-> "idle", input |-> <<>>, out |-> <<>>, out2 |-> <<>>]

Init ==
    /\ san = SanIdle
    /\ \E in \in Inputs : store = in.store /\ opts = in.opts
    /\ gall \in SourceTrees(store)
    /\ fs \in PriorTrees
    /\ pc = "start"
    /\ frames = <<>>
    /\ fspath = <<>>
    /\ uipath = <<>>
    /\ missing_files = <<>>
    /\ all_files = <<>>
    /\ run = 1
    /\ obs = [ops |-> {}, log |-> <<>>, fs0 |-> fs, prev |-> "none", first |-> fs]

Next ==
    \/ MainStart
    \/ SkipRow
    \/ FilterAlbum
    \/ EnterAlbum
    \/ Photo
    \/ ReturnAlbum
    \/ ReturnRoot
    \/ Rerun

Spec == Init /\ [][Next]_vars

-----------------------------------------------------------------------------
(* The sanitizer on its own: cleanup_uipathcomponent applied to every      *)
(* string of at most MaxParts pieces, and then to its own result.          *)

SanPieces ==
    {<<"a">>, <<"A">>, <<" ">>, <<"_">>, <<"-">>, <<"[">>, <<"]">>, <<"&">>,
     <<"a","m","p",";">>, <<"n","b","s","p",";">>, <<"#","0",";">>,
     <<NUL>>, <<EACUTE>>}

SanInputs ==
    {Flatten(ps) : ps \in UNION {[1..n -> SanPieces] : n \in 0..MaxParts}}

SanInit ==
    /\ san \in {[pc |-> "in", input |-> s, out |-> <<>>, out2 |-> <<>>] : s \in SanInputs}
    /\ store = ShapeFlat
    /\ opts = Options(FALSE, FALSE, FALSE, {}, {})
    /\ gall = NoTree
    /\ fs = FreshTree
    /\ pc = "idle"
    /\ frames = <<>>
    /\ fspath = <<>>
    /\ uipath = <<>>
    /\ missing_files = <<>>
    /\ all_files = <<>>
    /\ run = 1
    /\ obs = [ops |-> {}, log |-> <<>>, fs0 |-> fs, prev |-> "none", first |-> fs]

Sanitize ==
    /\ san.pc = "in"
    /\ san' = [san EXCEPT !.pc = "out", !.out = cleanup_uipathcomponent(san.input)]
    /\ UNCHANGED <<store, gall, opts, fs, pc, frames, fspath, uipath,
                   missing_files, all_files, run, obs>>

SanitizeAgain ==
    /\ san.pc = "out"
    /\ san' = [san EXCEPT !.pc = "twice", !.out2 = cleanup_uipathcomponent(san.out)]
    /\ UNCHANGED <<store, gall, opts, fs, pc, frames, fspath, uipath,
                   missing_files, all_files, run, obs>>

SanNext == Sanitize \/ SanitizeAgain

SanSpec == SanInit /\ [][SanNext]_vars

-----------------------------------------------------------------------------
(* What the claims speak of *)

\* the walk stands at a photo row
AtPhoto == AtRow /\ IsPhotoRow(TopRow)

PhotoOrig == OrigFile(fspath, RowPath(TopRow))
PhotoLink == get_link_target(uipath, RowTitle(TopRow), RowPath(TopRow), TRUE)
PhotoThumb == get_thumb_target(uipath, RowTitle(TopRow), RowPath(TopRow), TRUE)

\* the photo's original is there and generating its thumbnail fails
ThumbFails ==
    /\ AtPhoto
    /\ ~opts.dry_run
    /\ PhotoOrig \in DOMAIN gall
    /\ NeedThumb(fs, gall, PhotoThumb, opts)
    /\ ThumbStage(fs, gall, PhotoOrig, PhotoThumb, AlbumTarget(uipath),
                  Top.first_image).failed

\* the directory and the index page of the album whose call is on top
TopDir == OsJoin(JoinRel(uipath), <<>>)
TopIndex == OsJoin(JoinRel(uipath), INDEX_HTML)

SameAt(f1, f2, p) == (Has(f1, p) <=> Has(f2, p)) /\ (Has(f1, p) => f1[p] = f2[p])

\* where the rows of ShapeFlat go
LinkOfA == get_link_target(<< <<>> >>, RowTitle(PhotoA), RowPath(PhotoA), TRUE)
LinkOfB == get_link_target(<< <<>> >>, RowTitle(PhotoB), RowPath(PhotoB), TRUE)
OrigOfA == OrigFile(<< <<>> >>, RowPath(PhotoA))
OrigOfB == OrigFile(<< <<>> >>, RowPath(PhotoB))

\* the run before ended with exit code 0, on a tree that held nothing but
\* what this script's runs over these inputs had put there
AfterCleanRun == run > 1 /\ obs.prev = "done" /\ obs.first = FreshTree

-----------------------------------------------------------------------------
(* C1: a second run over the same store and source tree, force_thumbs      *)
(* unset, leaves the output tree as the first run left it and performs no  *)
(* file system write at all.                                               *)
C1_SecondRunWritesNothing ==
    (run > 1 /\ obs.prev = "done" /\ ~opts.force_thumbs)
        => (fs = obs.fs0 /\ \A o \in obs.ops : o.op \notin Mutating)

(* C2, as claimed: an album whose walk returns no summaries gets neither   *)
(* an output directory nor an index page from the run.                     *)
C2_EmptyAlbumLeavesNothing ==
    [][(ReturnAlbum /\ Top.child_objects = <<>>)
        => /\ \A o \in obs.ops : ~(o.op = "mkdir" /\ o.path = TopDir)
           /\ SameAt(fs', fs, TopIndex)]_vars

(* C2, as amended: an album whose walk returns no summaries gets no index  *)
(* page; its output directory is made before the walk whenever dry-run is  *)
(* unset and nothing is there yet, and it is there when the walk returns.  *)
C2_EmptyAlbumNoIndex ==
    [][/\ (ReturnAlbum /\ Top.child_objects = <<>>)
            => /\ SameAt(fs', fs, TopIndex)
               /\ (~opts.dry_run => Exists(fs, gall, TopDir))
       /\ (EnterAlbum /\ ~opts.dry_run /\ pc' = "walk")
            => Exists(fs', gall, OsJoin(JoinRel(uipath'), <<>>))]_vars

\* an album of the root returned nothing; its directory was made by this
\* run and holds no index page
C2_Witness ==
    /\ pc = "done"
    /\ ~opts.dry_run
    /\ store = ShapeEmpty
    /\ \E i \in DOMAIN frames[1].child_objects :
          LET e == frames[1].child_objects[i]
          IN  /\ e[3] = ALBUM_TYPE
              /\ IsDir(fs, gall, e[1])
              /\ [op |-> "mkdir", path |-> e[1], existed |-> FALSE] \in obs.ops
              /\ ~Has(fs, OsJoin(e[1], INDEX_HTML))

(* C3: a photo whose original is absent is not appended to the summaries   *)
(* of its level (stated for runs without dry-run, where photos are         *)
(* materialized).                                                          *)
C3_MissingPhotoNotListed ==
    ~opts.dry_run =>
        \A k \in DOMAIN frames : \A j \in DOMAIN frames[k].child_objects :
            LET e == frames[k].child_objects[j]
            IN  e[3] = PHOTO_TYPE
                    => OrigFile(SubSeq(fspath, 1, k), e[1]) \in DOMAIN gall

(* C4: with dry-run set a run leaves the output tree as it found it.       *)
C4_DryRunLeavesTree == opts.dry_run => fs = obs.fs0

(* C5, as claimed: when generating the thumbnail of a photo fails, the run *)
(* goes on with the next row and the link to the original is there after   *)
(* the step.                                                               *)
C5_ThumbFailureStillLinks ==
    [][(Photo /\ ThumbFails)
        => /\ pc' = "walk"
           /\ Top'.i = Top.i + 1
           /\ Has(fs', PhotoLink)]_vars

(* C5, as amended: when generating the thumbnail of a photo fails, the run *)
(* goes on with the next row, but the link step of that photo is skipped:  *)
(* nothing changes at the link path, the original is added to the missing  *)
(* list and not to the total, and the photo is not appended to the         *)
(* summaries.                                                              *)
C5_ThumbFailureSkipsLink ==
    [][(Photo /\ ThumbFails)
        => /\ pc' = "walk"
           /\ frames' = SetTop([Top EXCEPT !.i = @ + 1])
           /\ SameAt(fs', fs, PhotoLink)
           /\ missing_files' = Append(missing_files, PhotoOrig)
           /\ all_files' = all_files]_vars

\* PhotoA's thumbnail failed: no link for it, and PhotoB after it was linked
C5_Witness ==
    /\ pc = "done"
    /\ run = 1
    /\ store = ShapeFlat
    /\ OrigOfA \in DOMAIN gall
    /\ OrigOfA \in Range(missing_files)
    /\ ~Has(fs, LinkOfA)
    /\ Has(fs, LinkOfB)

(* C6: whenever an entry of whatever kind is at the link path of a photo,  *)
(* the link step is skipped and the run goes on; the run is aborted by the *)
(* link step only for a failure other than the path being taken.           *)
C6_TakenLinkPathIsSkipped ==
    [][(Photo /\ Has(fs, PhotoLink))
        => (pc' = "walk" /\ SameAt(fs', fs, PhotoLink))]_vars

(* C7, as claimed: for every photo whose original is absent the step       *)
(* leaves the output tree, adds one to the missing list, leaves the total  *)
(* and goes on to the next row.                                            *)
C7_MissingSourceCounted ==
    [][(Photo /\ PhotoOrig \notin DOMAIN gall)
        => /\ fs' = fs
           /\ Len(missing_files') = Len(missing_files) + 1
           /\ all_files' = all_files
           /\ pc' = "walk"
           /\ Top'.i = Top.i + 1]_vars

(* C7, as amended: the same, for runs without dry-run (with dry-run set    *)
(* the original is never looked at and the missing list stays as it is).   *)
C7_MissingSourceCountedUnlessDry ==
    [][(Photo /\ PhotoOrig \notin DOMAIN gall)
        => /\ fs' = fs
           /\ Len(missing_files') =
                 Len(missing_files) + (IF opts.dry_run THEN 0 ELSE 1)
           /\ all_files' = all_files
           /\ pc' = "walk"
           /\ Top'.i = Top.i + 1]_vars

\* PhotoA's original was absent; the run counted it, linked PhotoB after it
\* and ended with exit code 0
C7_Witness ==
    /\ pc = "done"
    /\ ~opts.dry_run
    /\ store = ShapeFlat
    /\ OrigOfA \notin DOMAIN gall
    /\ OrigOfA \in Range(missing_files)
    /\ ~Has(fs, LinkOfA)
    /\ Has(fs, LinkOfB)

(* C8: a run on the tree a run over the same inputs left, force_thumbs     *)
(* unset, generates no thumbnail and attempts no symbolic link at a path   *)
(* that is already there, and is not aborted.                              *)
C8_RerunRepeatsNothing ==
    (AfterCleanRun /\ ~opts.force_thumbs)
        => /\ \A o \in obs.ops :
                  o.op \in {"thumbgen", "symlink_attempt"} => ~o.existed
           /\ pc # "aborted"

\* the second run is over; the first had left thumbnails, links to
\* originals and a cover link
C8_Witness ==
    /\ AfterCleanRun
    /\ ~opts.force_thumbs
    /\ pc = "done"
    /\ \E p \in DOMAIN obs.fs0 : obs.fs0[p].kind = "link" /\ obs.fs0[p].data[1] = "gall"
    /\ \E p \in DOMAIN obs.fs0 : obs.fs0[p].kind = "link" /\ obs.fs0[p].data[1] = "test"
    /\ \E p \in DOMAIN obs.fs0 : obs.fs0[p].kind = "file" /\ obs.fs0[p].data[1] = "thumb"

(* C9: the result of cleanup_uipathcomponent holds no character of the     *)
(* illegal set and no NUL.                                                 *)
C9_ResultHasNoIllegalChar ==
    san.pc \in {"out", "twice"} => Range(san.out) \cap (RE_ILLIGAL \cup {NUL}) = {}

(* C10: cleanup_uipathcomponent applied to its own result changes nothing. *)
C10_SanitizerIdempotent == san.pc = "twice" => san.out2 = san.out

-----------------------------------------------------------------------------
\* the row a step of the log is about
EventRow(e) == Rows(e.at[Len(e.at)])[e.i]

\* the names get_link_target and get_thumb_target give a photo row
LinkName(row) == get_link_target(<<>>, RowTitle(row), RowPath(row), FALSE)
ThumbName(row) == get_thumb_target(<<>>, RowTitle(row), RowPath(row), FALSE)

\* two steps of the log are photos of one album level with different
\* source path components
SiblingPhotos(a, b) ==
    /\ a.ev = "photo" /\ b.ev = "photo"
    /\ a.at = b.at
    /\ RowPath(EventRow(a)) # RowPath(EventRow(b))

(* C11: two photos of one album level with different source path           *)
(* components are given different link names and different thumbnail       *)
(* names, whatever their titles.                                           *)
C11_SiblingPhotosGetOwnNames ==
    \A p, q \in DOMAIN obs.log :
        SiblingPhotos(obs.log[p], obs.log[q])
            => /\ LinkName(EventRow(obs.log[p])) # LinkName(EventRow(obs.log[q]))
               /\ ThumbName(EventRow(obs.log[p])) # ThumbName(EventRow(obs.log[q]))

-----------------------------------------------------------------------------
\* the album row is named by the ignore-list, by path component or by
\* sanitized title, or an allow-list is given and does not name its path
\* component
LeftOut(row) ==
    /\ IsAlbumRow(row)
    /\ \/ RowPath(row) \in opts.ignore_albums
       \/ RowTitle(row) \in opts.ignore_albums
       \/ (opts.only_albums # {} /\ RowPath(row) \notin opts.only_albums)

\* the row whose album the k-th active call walks (k > 1)
CalledFor(k) == Rows(frames[k-1].itemid)[frames[k-1].i]

\* the titles of the album summaries of a frame, in order
AlbumSummaries(fr) ==
    LET es == SelectSeq(fr.child_objects, LAMBDA e : e[3] = ALBUM_TYPE)
    IN  [j \in DOMAIN es |-> es[j][1]]

\* the titles of the albums among the first n rows that are not left out
AlbumsKept(rows, n) ==
    LET rs == SelectSeq(SubSeq(rows, 1, n), LAMBDA r : IsAlbumRow(r) /\ ~LeftOut(r))
    IN  [j \in DOMAIN rs |-> RowTitle(rs[j])]

\* how many rows of frame k the walk has taken up: the row of a call that
\* waits for an album is taken up, the row the call on top stands at is not
RowsBegun(k) == IF k < Len(frames) THEN frames[k].i ELSE frames[k].i - 1

\* the output directory an album row of the log maps to
DirOf(e) == OsJoin(JoinRel(Append(e.uip, RowTitle(EventRow(e)))), <<>>)

Under(dir, p) == p = dir \/ IsPrefix(dir \o <<"/">>, p)

(* C12: an album the ignore-list names by path component or by sanitized   *)
(* title, or a non-empty allow-list does not name by path component, is    *)
(* skipped at whatever depth: the step changes nothing but the row index,  *)
(* no call is ever active for it, the summaries hold the other albums      *)
(* only, and nothing is in the output tree at or below its directory.      *)
C12_LeftOutAlbumIsSkipped ==
    /\ \A k \in 2..Len(frames) : ~LeftOut(CalledFor(k))
    /\ \A k \in DOMAIN frames :
          pc \in {"walk", "done"} => AlbumSummaries(frames[k])
                            = AlbumsKept(Rows(frames[k].itemid), RowsBegun(k))
    /\ \A j \in DOMAIN obs.log :
          (obs.log[j].ev \in {"filter", "album"} /\ LeftOut(EventRow(obs.log[j])))
              => /\ obs.log[j].ev = "filter"
                 /\ \A p \in DOMAIN fs : ~Under(DirOf(obs.log[j]), p)

\* the run is over; it left out the album nested in ShapeDeep and wrote
\* the index page of that album's parent
C12_Witness ==
    /\ pc = "done"
    /\ store = ShapeDeep
    /\ \E j \in DOMAIN obs.log :
          /\ obs.log[j].ev = "filter"
          /\ Len(obs.log[j].at) = 2
          /\ LeftOut(EventRow(obs.log[j]))
    /\ Has(fs, OsJoin(RowTitle(AlbumX), INDEX_HTML))

-----------------------------------------------------------------------------
(* C13: when the walk comes to an album whose id is already on the current *)
(* path (the store holds a cycle), it stops there with a fatal error       *)
(* instead of descending into the album again.                             *)
C13_CycleIsDetected ==
    [][(EnterAlbum /\ TopRow.id \in Range(IdPath)) => pc' = "aborted"]_vars

-----------------------------------------------------------------------------
\* the step of the log at which the call on top was made
EntryEvent ==
    LET at == SubSeq(IdPath, 1, Len(frames) - 1)
        j == CHOOSE j \in DOMAIN obs.log :
                /\ obs.log[j].ev = "album"
                /\ obs.log[j].at = at
                /\ obs.log[j].i = frames[Len(frames) - 1].i
    IN  obs.log[j]

\* the two stacks hold, below the root's empty component, the path
\* component and the sanitized title of the album of every active call
StacksFollowCalls ==
    pc \in {"walk", "done"} =>
        /\ Len(fspath) = Len(frames) /\ Len(uipath) = Len(frames)
        /\ fspath[1] = <<>> /\ uipath[1] = <<>>
        /\ \A k \in 2..Len(frames) :
              /\ fspath[k] = RowPath(CalledFor(k))
              /\ uipath[k] = RowTitle(CalledFor(k))

(* C14: when a call of get_children for an album returns, the two path     *)
(* stacks are what they were when the album's row was taken up, whatever   *)
(* its children were and did; at every step the stacks hold exactly the    *)
(* components of the albums whose calls are active, so a row is processed  *)
(* under its parent's path.                                                *)
C14_StacksRestoredOnReturn ==
    /\ [][(ReturnAlbum /\ pc' = "walk")
            => (fspath' = EntryEvent.fsp /\ uipath' = EntryEvent.uip)]_vars
    /\ []StacksFollowCalls

\* back in the root's call after an album in which one photo's original
\* was absent and another's thumbnail failed
C14_Witness ==
    /\ pc = "walk"
    /\ Len(frames) = 1
    /\ fspath = << <<>> >> /\ uipath = << <<>> >>
    /\ \E j \in DOMAIN obs.log :
          obs.log[j].ev = "photo" /\ Len(obs.log[j].at) = 2
              /\ obs.log[j].outcome = "missing"
    /\ \E j \in DOMAIN obs.log :
          obs.log[j].ev = "photo" /\ Len(obs.log[j].at) = 2
              /\ obs.log[j].outcome = "thumbfail"
    /\ \E j \in DOMAIN obs.log : obs.log[j].ev = "index" /\ Len(obs.log[j].at) = 2

-----------------------------------------------------------------------------
\* a step of the log that takes up a row
IsRowEvent(e) == e.ev \in {"skip", "filter", "album", "photo"}

\* the rows of a call are taken up one by one from the first, in the order
\* of the store
RowsInOrder ==
    \A q \in DOMAIN obs.log :
        IsRowEvent(obs.log[q])
            => obs.log[q].i = Cardinality({p \in 1..q : /\ IsRowEvent(obs.log[p])
                                                       /\ obs.log[p].at = obs.log[q].at})

\* when a call comes to its index page, every row of its album has been
\* taken up, every call made below it has come to its own index page, and
\* nothing of its subtree happens afterwards
IndexAfterSubtree ==
    \A p \in DOMAIN obs.log :
        obs.log[p].ev = "index" =>
            /\ \A i \in 1..Len(Rows(obs.log[p].id)) :
                  \E q \in 1..(p-1) : /\ IsRowEvent(obs.log[q])
                                      /\ obs.log[q].at = obs.log[p].at
                                      /\ obs.log[q].i = i
            /\ \A q \in (p+1)..Len(obs.log) : ~IsPrefix(obs.log[p].at, obs.log[q].at)
            /\ \A q \in 1..(p-1) :
                  (obs.log[q].ev = "album" /\ obs.log[q].ret
                        /\ IsPrefix(obs.log[p].at, obs.log[q].at))
                      => \E r \in (q+1)..(p-1) :
                            /\ obs.log[r].ev = "index"
                            /\ obs.log[r].at = Append(obs.log[q].at, obs.log[q].id)

IsIndexPath(p) == p = OsJoin(ParentPath(p), INDEX_HTML)

(* C15: the rows of a node are processed in the order the store returned   *)
(* them; the index page of a node, the root included, is written only by   *)
(* the step that ends the node's call, after every row of the node and the *)
(* whole subtree of each has been processed.                               *)
C15_ChildrenInOrderIndexLast ==
    /\ [](RowsInOrder /\ IndexAfterSubtree)
    /\ [][\A p \in DOMAIN fs' :
            (IsIndexPath(p) /\ ~SameAt(fs', fs, p))
                => ((ReturnAlbum \/ ReturnRoot) /\ p = TopIndex)]_vars

\* the run over ShapeDeep is over and has written the index pages of the
\* innermost album, of its parent and of the root, in that order
C15_Witness ==
    /\ pc = "done"
    /\ store = ShapeDeep
    /\ \E a, b, c \in DOMAIN obs.log :
          /\ a < b /\ b < c
          /\ obs.log[a].ev = "index" /\ obs.log[a].ret /\ Len(obs.log[a].at) = 3
          /\ obs.log[b].ev = "index" /\ obs.log[b].ret /\ Len(obs.log[b].at) = 2
          /\ obs.log[c].ev = "index" /\ obs.log[c].ret /\ Len(obs.log[c].at) = 1

-----------------------------------------------------------------------------
\* a photo of the same call earlier in the log
EarlierPhotos(q) ==
    {p \in 1..(q-1) : obs.log[p].ev = "photo" /\ obs.log[p].at = obs.log[q].at}

(* C16, as claimed: the cover flag passed to generate_content is true for  *)
(* the first photo row of a level and false for every later photo row of   *)
(* that level, whatever became of the photos before it.                    *)
C16_FlagOnFirstPhotoOnly ==
    \A q \in DOMAIN obs.log :
        obs.log[q].ev = "photo" => (obs.log[q].flag <=> EarlierPhotos(q) = {})

(* C16, as amended: the cover flag is true for a photo row exactly when    *)
(* generate_content has returned true for no earlier photo row of the      *)
(* level.  It returns false for a thumbnail failure only, so the flag      *)
(* stays true after failed thumbnails and is cleared by a photo that was   *)
(* materialized, whose original was absent, or that a dry run passed over. *)
C16_FlagUntilFirstListed ==
    \A q \in DOMAIN obs.log :
        obs.log[q].ev = "photo" =>
            /\ obs.log[q].flag <=> (\A p \in EarlierPhotos(q) : ~obs.log[p].ret)
            /\ obs.log[q].ret <=> obs.log[q].outcome # "thumbfail"
            /\ obs.log[q].outcome \in {"ok", "missing", "dry", "thumbfail", "linkfail"}

\* a level whose first photo failed on its thumbnail, whose second was
\* passed the flag and had no original, and whose third was not passed it
C16_Witness ==
    \E r \in DOMAIN obs.log : \E q \in 1..(r-1) : \E p \in 1..(q-1) :
        /\ obs.log[p].ev = "photo" /\ obs.log[q].ev = "photo" /\ obs.log[r].ev = "photo"
        /\ obs.log[p].at = obs.log[q].at /\ obs.log[q].at = obs.log[r].at
        /\ EarlierPhotos(p) = {}
        /\ obs.log[p].outcome = "thumbfail"
        /\ obs.log[q].flag /\ obs.log[q].outcome = "missing"
        /\ ~obs.log[r].flag

-----------------------------------------------------------------------------
\* the path of the cover thumbnail of some level
IsCoverPath(p) == p = OsJoin(ParentPath(p), THUMB_PREFIX \o ALBUM_JPG)

\* where a chain of links inside the output tree ends
RECURSIVE FinalTarget(_, _, _)
FinalTarget(f, p, hops) ==
    IF hops > 0 /\ Has(f, p) /\ f[p].kind = "link" /\ f[p].data[1] = "test"
    THEN FinalTarget(f, f[p].data[2], hops - 1)
    ELSE p

(* C17: a cover link is made in the level above a returning album only     *)
(* when that level has no cover and the album has one, and the cover a     *)
(* level shows, directly or through a chain of links, lies in that level   *)
(* or one level below it, never deeper.                                    *)
C17_CoverFromOneLevelDown ==
    /\ [](\A p \in DOMAIN fs :
            (IsCoverPath(p) /\ IsLink(fs, p))
                => ParentPath(ParentPath(FinalTarget(fs, p, MaxLinkHops)))
                       = ParentPath(p))
    /\ [][\A p \in DOMAIN fs' :
            (IsCoverPath(p) /\ IsLink(fs', p) /\ ~Has(fs, p))
                => /\ ReturnAlbum
                   /\ ~Exists(fs, gall, p)
                   /\ Exists(fs, gall, OsJoin(JoinRel(uipath), THUMB_PREFIX \o ALBUM_JPG))
                   /\ pc' = "walk"]_vars

-----------------------------------------------------------------------------
\* the original and the thumbnail path of the photo a step of the log is
\* about
EventOrig(e) == OrigFile(e.fsp, RowPath(EventRow(e)))
EventThumb(e) ==
    get_thumb_target(e.uip, RowTitle(EventRow(e)), RowPath(EventRow(e)), TRUE)

\* the photo's original was there and its thumbnail, generated from it, is
\* in the tree
GoodPhoto(e) ==
    /\ e.ev = "photo"
    /\ e.outcome = "ok"
    /\ Has(fs, EventThumb(e))
    /\ fs[EventThumb(e)] = FileEntry(<<"thumb", EventOrig(e)>>)

\* a first run on an empty output tree, thumbnails enabled, no dry run
FirstRunOnEmptyTree ==
    run = 1 /\ obs.first = FreshTree /\ ~opts.dry_run /\ ~opts.no_thumbs

(* C18: after a first run on an empty output tree, thumbnails enabled and  *)
(* dry-run unset, every level with a photo whose original was there and    *)
(* whose thumbnail was generated has a regular file as its cover, whatever *)
(* became of the photos before it.                                         *)
C18_LevelWithGoodPhotoHasCover ==
    (pc = "done" /\ FirstRunOnEmptyTree) =>
        \A q \in DOMAIN obs.log :
            GoodPhoto(obs.log[q])
                => /\ Has(fs, AlbumTarget(obs.log[q].uip))
                   /\ fs[AlbumTarget(obs.log[q].uip)].kind = "file"

-----------------------------------------------------------------------------
(* C19: in a first run on an empty output tree without dry-run, the step   *)
(* that ends the call of an album with a non-empty summary list writes the *)
(* album's index page, and the page holds exactly that album's summaries   *)
(* in order, also when a sibling album has the same output name.           *)
C19_EveryAlbumGetsItsIndex ==
    [][((ReturnAlbum \/ ReturnRoot)
            /\ run = 1 /\ obs.first = FreshTree /\ ~opts.dry_run
            /\ Top.child_objects # <<>>)
        => /\ pc' # "aborted"
           /\ Has(fs', TopIndex)
           /\ fs'[TopIndex] = FileEntry(HtmlPage(Top.child_objects, Top.pathcomponent))
           /\ Op("write", TopIndex, fs) \in obs'.ops]_vars

-----------------------------------------------------------------------------
\* the operations the step adds to the record that change what is at p
Touches(p) == {o \in obs'.ops \ obs.ops : o.path = p /\ o.op \in Mutating}

(* C20: a cover that is a regular file stays as it is through every step   *)
(* of this and of later runs, force_thumbs included: nothing writes,       *)
(* removes or replaces it.  A cover that is a symbolic link is changed     *)
(* only by the photo step of its own level that was passed the cover flag, *)
(* which puts a regular file in its place.                                 *)
C20_RegularCoverIsKept ==
    [][\A p \in DOMAIN fs :
            IsCoverPath(p) =>
                /\ fs[p].kind = "file"
                      => (Has(fs', p) /\ fs'[p] = fs[p] /\ Touches(p) = {})
                /\ (fs[p].kind = "link" /\ ~SameAt(fs', fs, p))
                      => /\ Photo
                         /\ Top.first_image
                         /\ p = AlbumTarget(uipath)
                         /\ Has(fs', p) /\ fs'[p].kind = "file"]_vars

\* a second run with force_thumbs has generated again the thumbnail of a
\* photo that was passed the cover flag, at a level whose cover was a
\* regular file when the run began, and the cover is as it was
C20_Witness ==
    /\ run = 2
    /\ opts.force_thumbs
    /\ \E q \in DOMAIN obs.log :
          LET e == obs.log[q]
          IN  /\ e.ev = "photo" /\ e.flag /\ e.outcome = "ok"
              /\ Op("thumbgen", EventThumb(e), obs.fs0) \in obs.ops
              /\ Has(obs.fs0, AlbumTarget(e.uip))
              /\ obs.fs0[AlbumTarget(e.uip)].kind = "file"
              /\ fs[AlbumTarget(e.uip)] = obs.fs0[AlbumTarget(e.uip)]
    /\ \E p \in DOMAIN obs.fs0 : IsCoverPath(p) /\ obs.fs0[p].kind = "link"

=============================================================================
